---- MODULE Spec2Model ----
(***************************************************************************)
(* The redraw scheduler of the wgpu backend: the closure GpuBackend::       *)
(* run_event_loop hands to winit's EventLoop::run                          *)
(* (src/backends/wgpu/src/lib.rs, lines 74-246), with the state it         *)
(* captures (modifiers, font_size, gpu_state, app, window).                *)
(*                                                                         *)
(* One action per arm of the closure's match.  Every action sets `event`   *)
(* (the event the closure was called with) and `calls` (the calls the      *)
(* closure made on its collaborators while handling it, in order).         *)
(*                                                                         *)
(* GpuState, the glyph cache, input::map_key and zi's App are not in the   *)
(* source listing; their operations follow the design document and are     *)
(* marked so in the model map.  winit is the environment: it delivers the  *)
(* window events of one loop iteration, then MainEventsCleared, then the   *)
(* RedrawRequested of a window with a redraw request, then                 *)
(* RedrawEventsCleared, and it keeps ControlFlow::Exit once it is set.     *)
(***************************************************************************)
EXTENDS Integers, Sequences, FiniteSets, TLC

VARIABLES
    control_flow,     \* *control_flow: "Poll", "Wait" or "Exit"
    loop_phase,       \* winit's position in the loop iteration
    modifiers,        \* let mut modifiers (only ctrl() is read by the closure)
    font_size,        \* let mut font_size = 16.0f32 (whole numbers only)
    gpu_size,         \* gpu_state.size
    surface_size,     \* the size the presentation surface is configured for
    surface_ok,       \* FALSE while the presentation surface is lost
    cell_size,        \* gpu_state.glyph_cache.cell_size()
    generation,       \* the glyph cache generation
    win_size,         \* window.inner_size()
    scale_factor,     \* window.scale_factor()
    redraw_requested, \* a RedrawRequested is due for the window
    resize_queue,     \* Resized events winit has not delivered yet
    app_grid,         \* the grid size last given to the app (App::new, App::resize)
    app_dirty,        \* app.poll_state().dirty()
    app_exit,         \* app.poll_state().exit()
    event,            \* the event handled last
    calls,            \* the calls made while handling it
    observed_size,    \* the pixel size the closure read last
    close_seen,       \* a CloseRequested has been handled
    oom_seen,         \* render has returned OutOfMemory
    recovering,       \* the latest render returned Lost
    messages,         \* AppMessages sent through the proxy and not delivered yet
    sender_panicked   \* the senders whose send found the loop gone (line 33)

vars == <<control_flow, loop_phase, modifiers, font_size, gpu_size, surface_size,
          surface_ok, cell_size, generation, win_size, scale_factor,
          redraw_requested, resize_queue, app_grid, app_dirty, app_exit,
          event, calls, observed_size, close_seen, oom_seen, recovering,
          messages, sender_panicked>>

----------------------------------------------------------------------------
(* Bounds of the model *)

\* accelerator presses handled in the full specification
MaxGeneration == 1
\* accelerator presses handled in the font-size specification
MaxGenerationFont == 180
\* Resized events waiting for delivery
MaxPendingResize == 1

\* the AppMessages the model lets wait in the proxy's queue
MaxPendingMessages == 2

\* the clones of the EventLoopMessageSender, one to a thread
NumSenders == 2

(* Constants of the program *)

InitialFontSize == 16
MaxFontSize == 192
MinFontSize == 1
InitialWidth == 1280
InitialHeight == 1024

----------------------------------------------------------------------------
(* Values *)

Size(w, h) == [width |-> w, height |-> h]

InitialPixelSize == Size(InitialWidth, InitialHeight)

\* the pixel sizes the windowing system reports in this model
PixelSizes == {InitialPixelSize, Size(700, 0), Size(333, 250)}

ScaleFactors == {1, 2}

VirtualKeyCodes == {"Equals", "Minus", "A", "F13"}

ModifiersStates == [ctrl : BOOLEAN]

\* Ok and the SwapChainError variants; Outdated takes the arm of Timeout
RenderResults == {"Ok", "Lost", "OutOfMemory", "Timeout"}

Call(op, arg, res) == [op |-> op, arg |-> arg, res |-> res]

Event(kind, key) == [kind |-> kind, key |-> key]

Min(a, b) == IF a < b THEN a ELSE b
Max(a, b) == IF a > b THEN a ELSE b

----------------------------------------------------------------------------
(* Pure functions of the closure *)

GridSizeOf_RoundUp(pixel, cell) ==
    Size((pixel.width + cell.width - 1) \div cell.width,
         (pixel.height + cell.height - 1) \div cell.height)

\* Size::new((pixel.width / cell.width) as usize, (pixel.height / cell.height) as usize)
GridSizeOf(pixel, cell) ==
    Size(pixel.width \div cell.width, pixel.height \div cell.height)

IncreaseFontSize_NoCap(f) == f + 1

\* font_size = (font_size + 1.0).min(192.0)
IncreaseFontSize(f) == Min(f + 1, MaxFontSize)

DecreaseFontSize_ByTwo(f) == Max(f - 2, MinFontSize)

\* font_size = (font_size - 1.0).max(1.0)
DecreaseFontSize(f) == Max(f - 1, MinFontSize)

\* *virtual_keycode == VirtualKeyCode::Equals && modifiers.ctrl()
IsIncrease(vk, mods) == vk = "Equals" /\ mods.ctrl

IsDecrease_OtherKey(vk, mods) == vk = "Subtract" /\ mods.ctrl

\* *virtual_keycode == VirtualKeyCode::Minus && modifiers.ctrl()
IsDecrease(vk, mods) == vk = "Minus" /\ mods.ctrl

\* winit keeps ControlFlow::Exit: an assignment the closure makes once the
\* control flow is Exit is made to a copy the loop discards
SetControlFlow(new) == IF control_flow = "Exit" THEN "Exit" ELSE new

----------------------------------------------------------------------------
(* Collaborators that are not in the source listing *)

\* glyph cache: the cell size of the font at new_size * scale_factor
CellSizeOf(scale, size) ==
    Size((size * scale + 1) \div 2, size * scale)

\* input::map_key: the abstract key of a key code, or "None"
MapKey(vk, mods) == IF vk = "F13" THEN "None" ELSE vk

\* GpuState::resize is a no-op when a dimension is zero
Reconfigures(new_size) == new_size.width > 0 /\ new_size.height > 0

GpuSizeAfterResize(new_size) ==
    IF Reconfigures(new_size) THEN new_size ELSE gpu_size

SurfaceSizeAfterResize(new_size) ==
    IF Reconfigures(new_size) THEN new_size ELSE surface_size

SurfaceOkAfterResize(new_size) ==
    IF Reconfigures(new_size) THEN TRUE ELSE surface_ok

----------------------------------------------------------------------------
(* Init: the state when event_loop.run is entered (lines 83-95) *)

Init ==
    /\ control_flow = "Poll"
    /\ loop_phase = "events"
    /\ modifiers = [ctrl |-> FALSE]
    /\ font_size = InitialFontSize
    /\ win_size = InitialPixelSize
    /\ scale_factor = 1
    /\ gpu_size = InitialPixelSize
    /\ surface_size = InitialPixelSize
    /\ surface_ok = TRUE
    /\ cell_size = CellSizeOf(1, InitialFontSize)
    /\ generation = 0
    /\ redraw_requested = FALSE
    /\ resize_queue = <<>>
    /\ app_grid = GridSizeOf(InitialPixelSize, CellSizeOf(1, InitialFontSize))
    /\ app_dirty = FALSE
    /\ app_exit = FALSE
    /\ event = Event("None", "None")
    /\ calls = <<>>
    /\ observed_size = InitialPixelSize
    /\ close_seen = FALSE
    /\ oom_seen = FALSE
    /\ recovering = FALSE
    /\ messages = 0
    /\ sender_panicked = {}

----------------------------------------------------------------------------
(* The windowing system and the GPU, between two calls of the closure *)

\* the user resizes the window: inner_size() changes at once, the Resized
\* event is delivered later
WindowResized ==
    /\ loop_phase = "events"
    /\ Len(resize_queue) < MaxPendingResize
    /\ \E p \in PixelSizes :
          /\ p # win_size
          /\ win_size' = p
          /\ resize_queue' = Append(resize_queue, p)
    /\ UNCHANGED <<control_flow, loop_phase, modifiers, font_size, gpu_size,
                   surface_size, surface_ok, cell_size, generation, scale_factor,
                   redraw_requested, app_grid, app_dirty, app_exit, event, calls,
                   observed_size, close_seen, oom_seen, recovering, messages,
                   sender_panicked>>

\* the windowing system asks for a redraw of its own (the window is exposed)
WindowExposed ==
    /\ loop_phase = "events"
    /\ ~redraw_requested
    /\ redraw_requested' = TRUE
    /\ UNCHANGED <<control_flow, loop_phase, modifiers, font_size, gpu_size,
                   surface_size, surface_ok, cell_size, generation, win_size,
                   scale_factor, resize_queue, app_grid, app_dirty, app_exit,
                   event, calls, observed_size, close_seen, oom_seen,
                   recovering, messages, sender_panicked>>

\* the presentation surface is lost
SurfaceLoss ==
    /\ loop_phase = "events"
    /\ surface_ok
    /\ surface_ok' = FALSE
    /\ UNCHANGED <<control_flow, loop_phase, modifiers, font_size, gpu_size,
                   surface_size, cell_size, generation, win_size, scale_factor,
                   redraw_requested, resize_queue, app_grid, app_dirty, app_exit,
                   event, calls, observed_size, close_seen, oom_seen,
                   recovering, messages, sender_panicked>>

----------------------------------------------------------------------------
(* The arms of the closure *)

\* what no arm but RedrawRequested touches
RenderUnchanged == UNCHANGED <<oom_seen, recovering>>

\* the closure does not touch the proxy's queue, nor the senders
BridgeUnchanged == UNCHANGED <<messages, sender_panicked>>

CloseRequestedFlow_Wait == SetControlFlow("Wait")

\* WindowEvent::CloseRequested => *control_flow = ControlFlow::Exit
CloseRequestedFlow == SetControlFlow("Exit")

CloseRequested ==
    /\ loop_phase = "events"
    /\ control_flow' = CloseRequestedFlow
    /\ close_seen' = TRUE
    /\ event' = Event("CloseRequested", "None")
    /\ calls' = <<>>
    /\ RenderUnchanged
    /\ BridgeUnchanged
    /\ UNCHANGED <<loop_phase, modifiers, font_size, gpu_size, surface_size,
                   surface_ok, cell_size, generation, win_size, scale_factor,
                   redraw_requested, resize_queue, app_grid, app_dirty, app_exit,
                   observed_size>>

\* WindowEvent::ModifiersChanged(new_modifiers) => modifiers = *new_modifiers
ModifiersChanged ==
    /\ loop_phase = "events"
    /\ \E new_modifiers \in ModifiersStates : modifiers' = new_modifiers
    /\ event' = Event("ModifiersChanged", "None")
    /\ calls' = <<>>
    /\ RenderUnchanged
    /\ BridgeUnchanged
    /\ UNCHANGED <<control_flow, loop_phase, font_size, gpu_size, surface_size,
                   surface_ok, cell_size, generation, win_size, scale_factor,
                   redraw_requested, resize_queue, app_grid, app_dirty, app_exit,
                   observed_size, close_seen>>

AcceleratorGrid_InitialCell(new_cell_size) == GridSizeOf(win_size, cell_size)

\* the grid the accelerator arms give the app: window.inner_size() over the
\* cell size read after update_font_size
AcceleratorGrid(new_cell_size) == GridSizeOf(win_size, new_cell_size)

\* the calls of an accelerator arm whose update_font_size returned Ok
AcceleratorCalls(new_font_size, new_grid_size) ==
    << Call("update_font_size", new_font_size, "Ok"),
       Call("app.resize", new_grid_size, "Ok"),
       Call("request_redraw", "None", "Ok") >>

\* the two accelerator arms (lines 111-134 and 135-159) after the clamp:
\* update_font_size(..).unwrap(), the new grid, app.resize, request_redraw.
\* update_font_size either fails and leaves the glyph cache as it was, or
\* sets the cell size and increments the generation
FontSizeAccelerator(vk, new_font_size) ==
    /\ font_size' = new_font_size
    /\ event' = Event("KeyboardInput", vk)
    /\ \E ok \in BOOLEAN :
          IF ok
          THEN /\ cell_size' = CellSizeOf(scale_factor, new_font_size)
               /\ generation' = generation + 1
               /\ app_grid' = AcceleratorGrid(cell_size')
               /\ observed_size' = win_size
               /\ redraw_requested' = TRUE
               /\ calls' = AcceleratorCalls(new_font_size, app_grid')
               /\ UNCHANGED loop_phase
          ELSE \* unwrap() panics: the closure, and with it the loop, is gone
               /\ loop_phase' = "panicked"
               /\ calls' = << Call("update_font_size", new_font_size, "Err") >>
               /\ UNCHANGED <<cell_size, generation, app_grid, observed_size,
                              redraw_requested>>
    /\ RenderUnchanged
    /\ BridgeUnchanged
    /\ UNCHANGED <<control_flow, modifiers, gpu_size, surface_size, surface_ok,
                   win_size, scale_factor, resize_queue, app_dirty, app_exit,
                   close_seen>>

HandlerFailed_Dropped == loop_phase

\* handle_input(..).unwrap() and handle_message(..).unwrap() on an Err: the
\* closure panics, and the loop is gone
HandlerFailed == "panicked"

\* if app.poll_state().exit() { Exit } else if app.poll_state().dirty() { request_redraw }
PollState(exit, dirty) ==
    /\ control_flow' = IF exit THEN SetControlFlow("Exit") ELSE control_flow
    /\ redraw_requested' = IF ~exit /\ dirty THEN TRUE ELSE redraw_requested

PollCalls(exit, dirty) ==
    IF exit THEN << Call("poll_state", "None", "exit") >>
    ELSE IF dirty
         THEN << Call("poll_state", "None", "dirty"),
                 Call("request_redraw", "None", "Ok") >>
         ELSE << Call("poll_state", "None", "clean") >>

\* the else arm (lines 160-171): map_key, handle_input(..).unwrap(), poll
OrdinaryKey(vk) ==
    LET key == MapKey(vk, modifiers) IN
    /\ event' = Event("KeyboardInput", vk)
    /\ IF key = "None"
       THEN /\ PollState(app_exit, app_dirty)
            /\ calls' = << Call("map_key", vk, "None") >>
                        \o PollCalls(app_exit, app_dirty)
            /\ UNCHANGED <<loop_phase, app_dirty, app_exit>>
       ELSE \E ok \in BOOLEAN, dirty \in BOOLEAN, exit \in BOOLEAN :
               IF ok
               THEN /\ app_dirty' = (app_dirty \/ dirty)
                    /\ app_exit' = (app_exit \/ exit)
                    /\ PollState(app_exit', app_dirty')
                    /\ calls' = << Call("map_key", vk, key),
                                   Call("handle_input", key, "Ok") >>
                                \o PollCalls(app_exit', app_dirty')
                    /\ UNCHANGED loop_phase
               ELSE /\ ~dirty /\ ~exit
                    /\ loop_phase' = HandlerFailed
                    /\ calls' = << Call("map_key", vk, key),
                                   Call("handle_input", key, "Err") >>
                    /\ UNCHANGED <<control_flow, redraw_requested, app_dirty,
                                   app_exit>>
    /\ RenderUnchanged
    /\ BridgeUnchanged
    /\ UNCHANGED <<modifiers, font_size, gpu_size, surface_size, surface_ok,
                   cell_size, generation, win_size, scale_factor, resize_queue,
                   app_grid, observed_size, close_seen>>

\* WindowEvent::KeyboardInput with state Pressed and Some(virtual_keycode);
\* max_generation bounds the accelerator presses the model follows
KeyPressed(vk, max_generation) ==
    /\ loop_phase = "events"
    /\ IF IsIncrease(vk, modifiers)
       THEN /\ generation < max_generation
            /\ FontSizeAccelerator(vk, IncreaseFontSize(font_size))
       ELSE IF IsDecrease(vk, modifiers)
            THEN /\ generation < max_generation
                 /\ FontSizeAccelerator(vk, DecreaseFontSize(font_size))
            ELSE OrdinaryKey(vk)

KeyboardInput == \E vk \in VirtualKeyCodes : KeyPressed(vk, MaxGeneration)

\* the arms `_ => {}`: a key release, a key press without a key code, any
\* other window event, an event of another window
Ignored ==
    /\ loop_phase = "events"
    /\ event' = Event("Ignored", "None")
    /\ calls' = <<>>
    /\ RenderUnchanged
    /\ BridgeUnchanged
    /\ UNCHANGED <<control_flow, loop_phase, modifiers, font_size, gpu_size,
                   surface_size, surface_ok, cell_size, generation, win_size,
                   scale_factor, redraw_requested, resize_queue, app_grid,
                   app_dirty, app_exit, observed_size, close_seen>>

ResizeGrid_SurfaceSize(physical_size) == GridSizeOf(gpu_size, cell_size)

\* the grid of the Resized and the ScaleFactorChanged arm: the size carried
\* by the event over the glyph cache's cell size
ResizeGrid(physical_size) == GridSizeOf(physical_size, cell_size)

ResizeCalls_AppFirst(physical_size, new_size) ==
    << Call("app.resize", new_size, "Ok"),
       Call("gpu.resize", physical_size, "Ok") >>

\* gpu_state.resize(physical_size), then app.resize(new_size)
ResizeCalls(physical_size, new_size) ==
    << Call("gpu.resize", physical_size, "Ok"),
       Call("app.resize", new_size, "Ok") >>

\* gpu_state.resize(physical_size), the new grid, app.resize(new_size):
\* the body of the Resized and the ScaleFactorChanged arm
ResizeTo(physical_size) ==
    /\ gpu_size' = GpuSizeAfterResize(physical_size)
    /\ surface_size' = SurfaceSizeAfterResize(physical_size)
    /\ surface_ok' = SurfaceOkAfterResize(physical_size)
    /\ app_grid' = ResizeGrid(physical_size)
    /\ observed_size' = physical_size
    /\ calls' = ResizeCalls(physical_size, app_grid')

\* WindowEvent::Resized(physical_size) (lines 175-185)
Resized ==
    /\ loop_phase = "events"
    /\ resize_queue # <<>>
    /\ resize_queue' = Tail(resize_queue)
    /\ ResizeTo(Head(resize_queue))
    /\ event' = Event("Resized", "None")
    /\ RenderUnchanged
    /\ BridgeUnchanged
    /\ UNCHANGED <<control_flow, loop_phase, modifiers, font_size, cell_size,
                   generation, win_size, scale_factor, redraw_requested,
                   app_dirty, app_exit, close_seen>>

\* WindowEvent::ScaleFactorChanged { new_inner_size, .. } (lines 186-199).
\* Events arrive in order, so no earlier Resized is waiting; the window takes
\* new_inner_size when the closure returns, which winit reports with a
\* Resized event of its own
ScaleFactorChanged ==
    /\ loop_phase = "events"
    /\ resize_queue = <<>>
    /\ MaxPendingResize > 0
    /\ \E s \in ScaleFactors, new_inner_size \in PixelSizes :
          /\ s # scale_factor
          /\ scale_factor' = s
          /\ win_size' = new_inner_size
          /\ resize_queue' = Append(resize_queue, new_inner_size)
          /\ ResizeTo(new_inner_size)
    /\ event' = Event("ScaleFactorChanged", "None")
    /\ RenderUnchanged
    /\ BridgeUnchanged
    /\ UNCHANGED <<control_flow, loop_phase, modifiers, font_size, cell_size,
                   generation, redraw_requested, app_dirty, app_exit, close_seen>>

\* Event::UserEvent(message) (lines 233-242): handle_message(..).unwrap(), poll
HandleMessage ==
    /\ loop_phase = "events"
    /\ event' = Event("UserEvent", "None")
    /\ \E ok \in BOOLEAN, dirty \in BOOLEAN, exit \in BOOLEAN :
          IF ok
          THEN /\ app_dirty' = (app_dirty \/ dirty)
               /\ app_exit' = (app_exit \/ exit)
               /\ PollState(app_exit', app_dirty')
               /\ calls' = << Call("handle_message", "None", "Ok") >>
                           \o PollCalls(app_exit', app_dirty')
               /\ UNCHANGED loop_phase
          ELSE /\ ~dirty /\ ~exit
               /\ loop_phase' = HandlerFailed
               /\ calls' = << Call("handle_message", "None", "Err") >>
               /\ UNCHANGED <<control_flow, redraw_requested, app_dirty, app_exit>>
    /\ RenderUnchanged
    /\ UNCHANGED <<modifiers, font_size, gpu_size, surface_size, surface_ok,
                   cell_size, generation, win_size, scale_factor, resize_queue,
                   app_grid, observed_size, close_seen>>

\* Event::UserEvent(message), the message sent and delivered in one step
UserEvent ==
    /\ HandleMessage
    /\ BridgeUnchanged

\* Event::UserEvent(message) for the oldest message waiting in the queue
UserEventQueued ==
    /\ messages > 0
    /\ messages' = messages - 1
    /\ HandleMessage
    /\ UNCHANGED sender_panicked

MainEventsClearedFlow_Poll == SetControlFlow("Poll")

\* Event::MainEventsCleared => *control_flow = ControlFlow::Wait
MainEventsClearedFlow == SetControlFlow("Wait")

\* with ControlFlow::Wait winit starts an iteration only when something has
\* arrived: an event (handled since the last RedrawEventsCleared) or a
\* redraw request
Woken ==
    control_flow = "Wait" =>
        (event.kind # "RedrawEventsCleared" \/ redraw_requested)

MainEventsCleared ==
    /\ loop_phase = "events"
    /\ Woken
    /\ messages = 0
    /\ control_flow' = MainEventsClearedFlow
    /\ loop_phase' = "redraw"
    /\ event' = Event("MainEventsCleared", "None")
    /\ calls' = <<>>
    /\ RenderUnchanged
    /\ BridgeUnchanged
    /\ UNCHANGED <<modifiers, font_size, gpu_size, surface_size, surface_ok,
                   cell_size, generation, win_size, scale_factor,
                   redraw_requested, resize_queue, app_grid, app_dirty, app_exit,
                   observed_size, close_seen>>

\* what gpu_state.render() can return: Lost while the surface is lost, and
\* any other outcome while it is not
RenderOutcomes ==
    IF surface_ok THEN RenderResults \ {"Lost"} ELSE {"Lost"}

RenderFlow_LogOnly(result) == control_flow

RenderFlow_ExitOnError(result) ==
    IF result \in {"Ok", "Lost"} THEN control_flow ELSE SetControlFlow("Exit")

\* the control flow after the match on gpu_state.render() (lines 218-226)
RenderFlow(result) ==
    IF result = "OutOfMemory" THEN SetControlFlow("Exit") ELSE control_flow

RenderRecovery_None(result) == <<>>

\* the calls after gpu_state.render() returned: gpu_state.resize(gpu_state.size)
\* for Err(Lost), eprintln! for Err(e), none for Ok and Err(OutOfMemory)
RenderRecovery(result) ==
    IF result = "Lost" THEN << Call("gpu.resize", gpu_size, "Ok") >>
    ELSE IF result \in {"Ok", "OutOfMemory"} THEN <<>>
    ELSE << Call("eprintln", result, "Ok") >>

\* the recovery calls gpu_state.resize
Resizes(recovery) == \E i \in DOMAIN recovery : recovery[i].op = "gpu.resize"

FrameCalls_RenderFirst(result) ==
    << Call("draw", "None", "Canvas"),
       Call("gpu.render", "None", result),
       Call("gpu.update", "None", "Ok") >> \o RenderRecovery(result)

\* the calls of a frame whose draw gave a canvas (lines 203-226):
\* app.draw(), gpu_state.update(canvas), gpu_state.render(), the recovery
FrameCalls(result) ==
    << Call("draw", "None", "Canvas"),
       Call("gpu.update", "None", "Ok"),
       Call("gpu.render", "None", result) >> \o RenderRecovery(result)

RequestedAfterFrame_Again == TRUE

\* no arm of the frame calls window.request_redraw(): "RedrawRequested will
\* only trigger once, unless we manually request it" (lines 229-230)
RequestedAfterFrame == FALSE

\* Event::RedrawRequested(_) (lines 202-227).  app.draw() returns
\* Err(Exiting) when the app is exiting and a canvas otherwise, after which
\* the app is no longer dirty
RedrawRequested ==
    /\ loop_phase = "redraw"
    /\ redraw_requested
    /\ redraw_requested' = RequestedAfterFrame
    /\ event' = Event("RedrawRequested", "None")
    /\ BridgeUnchanged
    /\ IF app_exit
       THEN \* app.draw() returns Err(Exiting): Exit, and return
            /\ control_flow' = SetControlFlow("Exit")
            /\ calls' = << Call("draw", "None", "Exiting") >>
            /\ UNCHANGED <<gpu_size, surface_size, surface_ok, app_dirty,
                           oom_seen, recovering>>
       ELSE \E result \in RenderOutcomes :
               /\ app_dirty' = FALSE
               /\ control_flow' = RenderFlow(result)
               /\ calls' = FrameCalls(result)
               /\ IF Resizes(RenderRecovery(result))
                  THEN /\ gpu_size' = GpuSizeAfterResize(gpu_size)
                       /\ surface_size' = SurfaceSizeAfterResize(gpu_size)
                       /\ surface_ok' = SurfaceOkAfterResize(gpu_size)
                  ELSE UNCHANGED <<gpu_size, surface_size, surface_ok>>
               /\ oom_seen' = (oom_seen \/ result = "OutOfMemory")
               /\ recovering' = (result = "Lost")
    /\ UNCHANGED <<loop_phase, modifiers, font_size, cell_size, generation,
                   win_size, scale_factor, resize_queue, app_grid, app_exit,
                   observed_size, close_seen>>

\* Event::RedrawEventsCleared falls to `_ => {}`; winit then ends the loop if
\* the control flow is Exit, and starts the next iteration otherwise
RedrawEventsCleared ==
    /\ loop_phase = "redraw"
    /\ ~redraw_requested
    /\ loop_phase' = IF control_flow = "Exit" THEN "done" ELSE "events"
    /\ event' = Event("RedrawEventsCleared", "None")
    /\ calls' = <<>>
    /\ RenderUnchanged
    /\ BridgeUnchanged
    /\ UNCHANGED <<control_flow, modifiers, font_size, gpu_size, surface_size,
                   surface_ok, cell_size, generation, win_size, scale_factor,
                   redraw_requested, resize_queue, app_grid, app_dirty, app_exit,
                   observed_size, close_seen>>

----------------------------------------------------------------------------
(* The specifications *)

Next ==
    \/ WindowResized
    \/ WindowExposed
    \/ SurfaceLoss
    \/ CloseRequested
    \/ ModifiersChanged
    \/ KeyboardInput
    \/ Ignored
    \/ Resized
    \/ ScaleFactorChanged
    \/ UserEvent
    \/ MainEventsCleared
    \/ RedrawRequested
    \/ RedrawEventsCleared

Spec == Init /\ [][Next]_vars

\* the font-size accelerators followed to both ends of the range: ctrl goes
\* down, then '=' and '-' are pressed in any order, between close requests
\* and the frames of the loop
CtrlPressed ==
    /\ ~modifiers.ctrl
    /\ ModifiersChanged
    /\ modifiers'.ctrl

AcceleratorPressed ==
    /\ modifiers.ctrl
    /\ \E vk \in {"Equals", "Minus"} : KeyPressed(vk, MaxGenerationFont)

NextFont ==
    \/ CtrlPressed
    \/ AcceleratorPressed
    \/ CloseRequested
    \/ MainEventsCleared
    \/ RedrawRequested
    \/ RedrawEventsCleared

SpecFont == Init /\ [][NextFont]_vars

Senders == 1 .. NumSenders

\* the loop is there to receive: it has neither ended nor panicked
LoopAlive == loop_phase \in {"events", "redraw"}

\* EventLoopMessageSender::send on a clone, from any thread (lines 29-34):
\* send_event queues the message while the loop is there; when the loop is
\* gone it returns Err(EventLoopClosed), and the expect panics the sender
Send(sender) ==
    /\ sender \notin sender_panicked
    /\ IF LoopAlive
       THEN /\ messages < MaxPendingMessages
            /\ messages' = messages + 1
            /\ UNCHANGED sender_panicked
       ELSE /\ sender_panicked' = sender_panicked \cup {sender}
            /\ UNCHANGED messages
    /\ UNCHANGED <<control_flow, loop_phase, modifiers, font_size, gpu_size,
                   surface_size, surface_ok, cell_size, generation, win_size,
                   scale_factor, redraw_requested, resize_queue, app_grid,
                   app_dirty, app_exit, event, calls, observed_size,
                   close_seen, oom_seen, recovering>>

MessageSent == \E sender \in Senders : Send(sender)

\* the message bridge: senders on other threads, the loop delivering their
\* messages between key presses and other window events
NextBridge ==
    \/ MessageSent
    \/ UserEventQueued
    \/ KeyboardInput
    \/ Ignored
    \/ CloseRequested
    \/ MainEventsCleared
    \/ RedrawRequested
    \/ RedrawEventsCleared

SpecBridge == Init /\ [][NextBridge]_vars

----------------------------------------------------------------------------
(* Claims *)

\* the calls of the latest handler that are calls of op
CallsOf(op) == {i \in DOMAIN calls : calls[i].op = op}

\* C1: from font size 16, after any sequence of ctrl+'=' and ctrl+'-'
\* presses between other events, the font size is within [1, 192], and so is
\* every size passed to update_font_size.
C1_FontSizeInRange ==
    /\ font_size >= 1
    /\ font_size <= 192
    /\ \A i \in CallsOf("update_font_size") :
          calls[i].arg >= 1 /\ calls[i].arg <= 192

\* an increase press at 192 has been handled: 176 presses lead from 16 to
\* 192, and this is the 177th
C1_PressedAtTheCap ==
    /\ event = Event("KeyboardInput", "Equals")
    /\ font_size = 192
    /\ generation = 177
    /\ CallsOf("update_font_size") # {}

\* one call of the closure
Handler ==
    \/ CloseRequested
    \/ ModifiersChanged
    \/ KeyboardInput
    \/ Ignored
    \/ Resized
    \/ ScaleFactorChanged
    \/ UserEvent
    \/ UserEventQueued
    \/ MainEventsCleared
    \/ RedrawRequested
    \/ RedrawEventsCleared

\* the calls of the latest handler on the surface manager and the glyph cache
GpuCalls ==
    {i \in DOMAIN calls :
        calls[i].op \in {"gpu.resize", "gpu.update", "gpu.render",
                         "update_font_size"}}

\* the latest handler was a press of ctrl+'=' or ctrl+'-'
AcceleratorHandled ==
    /\ event.kind = "KeyboardInput"
    /\ event.key \in {"Equals", "Minus"}
    /\ modifiers.ctrl

\* the outcome of the latest handler's render, "None" if it made none
Rendered ==
    IF CallsOf("gpu.render") = {} THEN "None"
    ELSE calls[CHOOSE i \in CallsOf("gpu.render") : TRUE].res

\* C2: a close request leads to Exiting whatever the app's dirty and exit
\* flags are, and the control flow is still Exit after every later event,
\* MainEventsCleared included: Exit is never left.
C2_CloseLeadsToExiting ==
    /\ [](close_seen => control_flow = "Exit")
    /\ [][control_flow = "Exit" => control_flow' = "Exit"]_vars

\* MainEventsCleared has been handled after a close request, with the app
\* dirty, and the control flow is Exit
C2_DrainedAfterClose ==
    /\ close_seen
    /\ app_dirty
    /\ event.kind = "MainEventsCleared"
    /\ control_flow = "Exit"

\* C3: handling a press of ctrl+'=' or ctrl+'-' never calls map_key nor the
\* app's handle_input.
C3_AcceleratorNotForwarded ==
    AcceleratorHandled =>
        /\ CallsOf("map_key") = {}
        /\ CallsOf("handle_input") = {}

\* ctrl+'-' has been handled as an accelerator
C3_AcceleratorConsumed ==
    /\ AcceleratorHandled
    /\ event.key = "Minus"
    /\ CallsOf("update_font_size") # {}
    /\ CallsOf("request_redraw") # {}

\* C4: once render has returned OutOfMemory the control flow is Exit, and no
\* later call of the closure calls resize, update, render or
\* update_font_size.
C4_NoGpuCallAfterOutOfMemory ==
    /\ [](oom_seen => control_flow = "Exit")
    /\ [][(oom_seen /\ Handler) => GpuCalls' = {}]_vars

\* the loop has ended after an OutOfMemory, having handled a later event
C4_EndedAfterOutOfMemory ==
    /\ oom_seen
    /\ loop_phase = "done"
    /\ event.kind = "RedrawEventsCleared"

\* C5 as claimed: the render of the first frame-requested event after a
\* render that returned SurfaceLost succeeds.
C5_NextFrameRenders ==
    [][(recovering /\ RedrawRequested /\ Rendered' # "None")
          => Rendered' = "Ok"]_vars

\* C5, amended: when render returns SurfaceLost the closure calls
\* gpu_state.resize with gpu_state.size, which has no zero dimension, the
\* surface is configured for that size when the closure returns, and the
\* control flow is unchanged.
C5_LostSurfaceReconfigured ==
    [][(RedrawRequested /\ Rendered' = "Lost")
          => /\ calls'[Len(calls')] = Call("gpu.resize", gpu_size, "Ok")
             /\ Reconfigures(gpu_size)
             /\ gpu_size' = gpu_size
             /\ surface_size' = gpu_size
             /\ surface_ok'
             /\ control_flow' = control_flow]_vars

\* a SurfaceLost has been handled after a resize to a size with a zero
\* dimension
C5_LostAfterZeroResize ==
    /\ event.kind = "RedrawRequested"
    /\ Rendered = "Lost"
    /\ observed_size.height = 0
    /\ surface_ok

\* grid is the floor of pixel / cell, in each dimension
IsFloorOf(grid, pixel, cell) ==
    /\ grid.width * cell.width <= pixel.width
    /\ pixel.width < (grid.width + 1) * cell.width
    /\ grid.height * cell.height <= pixel.height
    /\ pixel.height < (grid.height + 1) * cell.height

\* C6: the grid size handed to the app at startup, on a resize, on a scale
\* change and on a font-size accelerator is (floor(P.width / C.width),
\* floor(P.height / C.height)) for the pixel size P read and the cell size C;
\* P = 1280x1024 and C = 8x16 give (160, 64).
C6_GridSizeIsFloor ==
    /\ cell_size.width > 0 /\ cell_size.height > 0
    /\ event.kind = "None" => IsFloorOf(app_grid, observed_size, cell_size)
    /\ \A i \in CallsOf("app.resize") :
          /\ IsFloorOf(calls[i].arg, observed_size, cell_size)
          /\ (observed_size = Size(1280, 1024) /\ cell_size = Size(8, 16))
                => calls[i].arg = Size(160, 64)

\* a Resized to 1280x1024 has been handled with cells of 8x16, and the app
\* was given (160, 64)
C6_ResizedToExample ==
    /\ event.kind = "Resized"
    /\ observed_size = Size(1280, 1024)
    /\ cell_size = Size(8, 16)
    /\ CallsOf("app.resize") # {}
    /\ app_grid = Size(160, 64)

UpdateFailed ==
    \E i \in CallsOf("update_font_size") : calls[i].res = "Err"

\* C8 as claimed: over the accelerator presses whose update_font_size
\* succeeds, the generation is incremented if and only if the font size after
\* the press differs from the font size before it.
C8_BumpIffFontSizeChanges ==
    [][(AcceleratorPressed /\ ~UpdateFailed')
          => ((generation' # generation) <=> (font_size' # font_size))]_vars

\* C9: an accelerator press at a font size strictly inside the bounds, whose
\* update_font_size succeeds, changes the font size by exactly 1 (up for '=',
\* down for '-'), calls update_font_size once with the new size, then
\* app.resize with the grid of the new cell size, then request_redraw; the
\* generation grows by one per press, so 21 is reached from 16 with five
\* increments.
C9_AcceleratorStep ==
    /\ [][(AcceleratorPressed /\ ~UpdateFailed'
              /\ font_size > 1 /\ font_size < 192)
            => /\ font_size' = IF event'.key = "Equals" THEN font_size + 1
                               ELSE font_size - 1
               /\ generation' = generation + 1
               /\ Len(calls') = 3
               /\ calls'[1] = Call("update_font_size", font_size', "Ok")
               /\ calls'[2].op = "app.resize"
               /\ IsFloorOf(calls'[2].arg, win_size, cell_size')
               /\ app_grid' = calls'[2].arg
               /\ calls'[3].op = "request_redraw"
               /\ redraw_requested']_vars
    /\ [](~UpdateFailed => /\ font_size - 16 <= generation
                           /\ 16 - font_size <= generation)

\* five increase presses have been handled from 16
C9_FiveIncreases ==
    /\ event = Event("KeyboardInput", "Equals")
    /\ font_size = 21
    /\ generation = 5
    /\ cell_size = CellSizeOf(1, 21)
    /\ redraw_requested

\* C10 as claimed: when update_font_size fails during an accelerator press,
\* the font size, the cell size, the generation, the app's grid size and the
\* control flow are as before the press, no frame is requested, and the loop
\* keeps running.
C10_FailedUpdateAltersNothing ==
    [][(KeyboardInput /\ UpdateFailed')
          => /\ font_size' = font_size
             /\ cell_size' = cell_size
             /\ generation' = generation
             /\ app_grid' = app_grid
             /\ control_flow' = control_flow
             /\ redraw_requested' = redraw_requested
             /\ loop_phase' = "events"]_vars

\* a pixel size with a dimension of zero
HasZeroDimension(size) == size.width = 0 \/ size.height = 0

\* C11: a Resized or ScaleFactorChanged event whose size has a zero
\* dimension leaves the surface configuration as it was and neither panics
\* nor ends the loop; one with a non-zero size, also after a zero one,
\* configures the surface for that size and gives the app the grid
\* floor(size / cell size).
C11_ZeroResizeSkippedThenRecovered ==
    [][(Resized \/ ScaleFactorChanged) =>
          /\ loop_phase' = loop_phase
          /\ control_flow' = control_flow
          /\ IF HasZeroDimension(observed_size')
             THEN UNCHANGED <<gpu_size, surface_size, surface_ok>>
             ELSE /\ surface_size' = observed_size'
                  /\ gpu_size' = observed_size'
                  /\ surface_ok'
                  /\ IsFloorOf(app_grid', observed_size', cell_size')
                  /\ \A i \in CallsOf("app.resize")' :
                        calls'[i].arg = app_grid']_vars

\* a Resized to 700x0 has been handled, the surface is still configured for
\* 1280x1024, the loop runs, and a Resized to 333x250 is the next to arrive
C11_ZeroResizedNonZeroNext ==
    /\ event.kind = "Resized"
    /\ HasZeroDimension(observed_size)
    /\ surface_size = InitialPixelSize
    /\ loop_phase = "events"
    /\ resize_queue = << Size(333, 250) >>

\* C12: a RedrawRequested event calls draw exactly once, first; if draw
\* reports Exiting the control flow is Exit and neither update nor render is
\* called; otherwise update is called exactly once and then render exactly
\* once, in the same event. No handler calls render without the update
\* just before it.
C12_DrawThenUpdateThenRender ==
    /\ event.kind = "RedrawRequested" =>
          /\ Cardinality(CallsOf("draw")) = 1
          /\ calls[1].op = "draw"
          /\ IF calls[1].res = "Exiting"
             THEN /\ control_flow = "Exit"
                  /\ CallsOf("gpu.update") = {}
                  /\ CallsOf("gpu.render") = {}
             ELSE /\ Cardinality(CallsOf("gpu.update")) = 1
                  /\ Cardinality(CallsOf("gpu.render")) = 1
                  /\ calls[2].op = "gpu.update"
                  /\ calls[3].op = "gpu.render"
    /\ \A i \in CallsOf("gpu.render") : i > 1 /\ calls[i - 1].op = "gpu.update"
    /\ CallsOf("draw") # {} => event.kind = "RedrawRequested"

\* a frame whose draw gave a canvas has been handled: draw, update and a
\* successful render, and nothing else
C12_FrameRendered ==
    /\ event.kind = "RedrawRequested"
    /\ Len(calls) = 3
    /\ calls[1].res = "Canvas"
    /\ Rendered = "Ok"
    /\ control_flow = "Wait"

\* the latest handler's poll of the app, "None" if it made none
Polled ==
    IF CallsOf("poll_state") = {} THEN "None"
    ELSE calls[CHOOSE i \in CallsOf("poll_state") : TRUE].res

\* the key given to the latest handler's map_key was mapped
KeyMapped == \E i \in CallsOf("map_key") : calls[i].res # "None"

\* C13: after every key press that is no accelerator, mapped or not, and
\* after every message, the app is polled once: on exit the control flow
\* becomes Exit and no frame is requested, also when the app is dirty;
\* otherwise on dirty a frame is requested; otherwise nothing changes.
\* handle_input is called exactly when the key was mapped, handle_message
\* exactly once per message.
C13_PolledAfterKeyOrMessage ==
    [][((KeyboardInput /\ ~AcceleratorHandled') \/ UserEvent
           \/ UserEventQueued) =>
          /\ Cardinality(CallsOf("poll_state")') = 1
          /\ Polled' = IF app_exit' THEN "exit"
                       ELSE IF app_dirty' THEN "dirty" ELSE "clean"
          /\ Polled' = "exit" =>
                /\ control_flow' = "Exit"
                /\ CallsOf("request_redraw")' = {}
                /\ redraw_requested' = redraw_requested
          /\ Polled' = "dirty" =>
                /\ Cardinality(CallsOf("request_redraw")') = 1
                /\ redraw_requested'
                /\ control_flow' = control_flow
          /\ Polled' = "clean" =>
                /\ CallsOf("request_redraw")' = {}
                /\ UNCHANGED <<control_flow, redraw_requested>>
          /\ event'.kind = "KeyboardInput" =>
                /\ Cardinality(CallsOf("handle_input")') =
                      (IF KeyMapped' THEN 1 ELSE 0)
                /\ CallsOf("handle_message")' = {}
          /\ event'.kind = "UserEvent" =>
                /\ Cardinality(CallsOf("handle_message")') = 1
                /\ CallsOf("handle_input")' = {}]_vars

\* C14: redraw requests coalesce. A frame is handled only when one is
\* requested; it serves every request raised since the last frame, however
\* many there were, with one draw and at most one update and one render, and
\* leaves none pending: a further frame needs a new request.
C14_RequestsCoalesce ==
    [][RedrawRequested =>
          /\ redraw_requested
          /\ ~redraw_requested'
          /\ Cardinality(CallsOf("draw")') = 1
          /\ Cardinality(CallsOf("gpu.update")') <= 1
          /\ Cardinality(CallsOf("gpu.render")') <= 1]_vars

\* two requests are pending for one frame: no frame has been handled yet
\* (the control flow is still Poll), an accelerator has requested one, and a
\* dirty app after a key press or a message has just requested another
C14_TwoRequestsOneFrame ==
    /\ control_flow = "Poll"
    /\ generation = 1
    /\ event.kind \in {"KeyboardInput", "UserEvent"}
    /\ Polled = "dirty"
    /\ CallsOf("request_redraw") # {}
    /\ redraw_requested

\* C15: when the app is dirty, and not exiting, after a key press or a
\* message, the frame requested for it is eventually handled and draw is
\* called, unless the loop reaches Exiting first. So as long as that frame
\* is awaited and the control flow is not Exit, the loop is there to handle
\* it.
C15_DirtyFrameIsDrawn ==
    (app_dirty /\ redraw_requested /\ control_flow # "Exit") => LoopAlive

\* C17: a message sent through any clone of the sender while the loop is
\* there is queued, and handed to handle_message exactly once unless the
\* loop reaches Exiting first, so while a message waits and the control
\* flow is not Exit the loop is there to deliver it; a send to a loop that
\* is gone panics the sender and queues nothing.
C17_MessagesDeliveredOnce ==
    /\ [](messages > 0 /\ control_flow # "Exit" => LoopAlive)
    /\ [][MessageSent =>
             IF LoopAlive
             THEN messages' = messages + 1 /\ UNCHANGED sender_panicked
             ELSE /\ Cardinality(sender_panicked') =
                        Cardinality(sender_panicked) + 1
                  /\ UNCHANGED messages]_vars
    /\ [][UserEventQueued =>
             /\ messages' = messages - 1
             /\ Cardinality(CallsOf("handle_message")') = 1]_vars
    /\ [][messages' < messages => UserEventQueued]_vars

\* the loop waits: an iteration has ended, the control flow is Wait and
\* nothing has arrived since
Idle ==
    /\ loop_phase = "events"
    /\ control_flow = "Wait"
    /\ event.kind = "RedrawEventsCleared"
    /\ ~redraw_requested
    /\ messages = 0

\* C16: MainEventsCleared, handled when the control flow is not Exit, sets
\* it to Wait; from the first MainEventsCleared on the control flow is never
\* Poll; and the closure handles nothing while the loop is idle with no
\* window event, redraw request or message arrived.
C16_IdleIsWait ==
    /\ [][MainEventsCleared =>
             control_flow' = IF control_flow = "Exit" THEN "Exit"
                             ELSE "Wait"]_vars
    /\ [][control_flow # "Poll" => control_flow' # "Poll"]_vars
    /\ [][Idle => ~(MainEventsCleared \/ RedrawRequested
                     \/ RedrawEventsCleared)]_vars

\* the loop has gone round once and is idle
C16_IdleAfterAnIteration == Idle /\ ~app_dirty /\ calls = <<>>

\* C18: a Resized or ScaleFactorChanged event calls the surface manager's
\* resize with the new pixel size, then the app's resize with the grid
\* floor(new size / cell size), and does nothing else: it requests no frame,
\* polls nothing, and leaves the control flow, the font size, the cell size
\* and the generation as they were.
C18_ResizeOnlyResizes ==
    [][(Resized \/ ScaleFactorChanged) =>
          /\ Len(calls') = 2
          /\ calls'[1] = Call("gpu.resize", observed_size', "Ok")
          /\ calls'[2].op = "app.resize"
          /\ IsFloorOf(calls'[2].arg, observed_size', cell_size)
          /\ UNCHANGED <<control_flow, loop_phase, redraw_requested,
                         font_size, cell_size, generation, modifiers,
                         app_dirty, app_exit>>]_vars

\* the window has been resized to 333x250 while the loop was idle in Wait:
\* the two calls are made, no frame is requested, and Wait stays
C18_ResizedWhileWaiting ==
    /\ event.kind = "Resized"
    /\ observed_size = Size(333, 250)
    /\ Len(calls) = 2
    /\ calls[1].op = "gpu.resize"
    /\ calls[2].op = "app.resize"
    /\ control_flow = "Wait"
    /\ ~redraw_requested

\* the render outcomes with an arm of their own (lines 219-223)
NamedOutcomes == {"Ok", "Lost", "OutOfMemory"}

\* the step's render failed with another error, which was logged, and that
\* is all: no resize, no Exit, no frame requested, the surface as it was
TransientLogged ==
    /\ Rendered' \notin NamedOutcomes \cup {"None"}
    /\ calls'[Len(calls')] = Call("eprintln", Rendered', "Ok")
    /\ Cardinality(CallsOf("gpu.render")') = 1
    /\ CallsOf("gpu.resize")' = {}
    /\ CallsOf("request_redraw")' = {}
    /\ ~redraw_requested'
    /\ UNCHANGED <<control_flow, loop_phase, gpu_size, surface_size,
                   surface_ok>>

\* C19 as stated: a render error other than SurfaceLost and OutOfMemory is
\* logged and changes nothing, and every RedrawRequested event ends with the
\* frame rendered, or skipped with a logged error, or with the control flow
\* Exit.
C19_RenderedLoggedOrExiting ==
    [][RedrawRequested =>
          /\ Rendered' \notin NamedOutcomes \cup {"None"} => TransientLogged
          /\ \/ Rendered' = "Ok"
             \/ TransientLogged
             \/ control_flow' = "Exit"]_vars

\* C19: a render error other than SurfaceLost and OutOfMemory is logged and
\* changes nothing: no resize, no Exit, no frame request, so the frame is
\* shown only by a later RedrawRequested event. Every RedrawRequested event
\* ends with the frame rendered, or skipped with a logged error, or dropped
\* with the surface reconfigured and nothing logged (SurfaceLost), or with
\* the control flow Exit.
C19_TransientErrorIsLogged ==
    [][RedrawRequested =>
          /\ Rendered' \notin NamedOutcomes \cup {"None"} => TransientLogged
          /\ \/ Rendered' = "Ok"
             \/ TransientLogged
             \/ /\ Rendered' = "Lost"
                /\ CallsOf("gpu.resize")' # {}
                /\ CallsOf("eprintln")' = {}
                /\ control_flow' = control_flow
             \/ control_flow' = "Exit"]_vars

\* a frame's render has timed out while the loop was in Wait: the error is
\* logged, no frame is requested, and Wait stays
C19_FrameTimedOut ==
    /\ event.kind = "RedrawRequested"
    /\ Rendered = "Timeout"
    /\ CallsOf("eprintln") # {}
    /\ control_flow = "Wait"
    /\ ~redraw_requested

\* the calls of the latest handler to handle_input or handle_message that
\* returned Err
FailedHandling ==
    {i \in CallsOf("handle_input") \cup CallsOf("handle_message") :
        calls[i].res = "Err"}

\* C20: when handle_input or handle_message returns Err the loop is gone at
\* once: that call is the handler's last, with no poll and no frame request
\* after it, and no event is handled afterwards. A key that is not mapped, a
\* key release, a key press without a key code, a change of the modifiers
\* and an event of another window are no errors and do not end the loop.
C20_FailedHandlingIsFatal ==
    /\ FailedHandling # {} =>
          /\ loop_phase = "panicked"
          /\ Len(calls) \in FailedHandling
          /\ CallsOf("poll_state") = {}
          /\ CallsOf("request_redraw") = {}
    /\ loop_phase = "panicked" =>
          /\ calls # <<>>
          /\ calls[Len(calls)].res = "Err"
          /\ event.kind \in {"KeyboardInput", "UserEvent"}
    /\ event.kind \in {"Ignored", "ModifiersChanged"} =>
          /\ loop_phase # "panicked"
          /\ calls = <<>>
    /\ (event.kind = "KeyboardInput" /\ CallsOf("map_key") # {} /\ ~KeyMapped) =>
          /\ loop_phase # "panicked"
          /\ CallsOf("handle_input") = {}

\* handle_message has returned Err for a message, and the loop is gone
C20_MessageHandlingFailed ==
    /\ event.kind = "UserEvent"
    /\ calls = << Call("handle_message", "None", "Err") >>
    /\ loop_phase = "panicked"

====
